---- MODULE Spec2Model ----
(***************************************************************************)
(* Metro-North trip optimiser: the static best-train-per-station selector  *)
(* (tt2gc.py), the total-time ranker (combine_opt.py) and the two time     *)
(* conversions of tt2gc.py (to_minutes, fmt_time, the HH:MM input parse).  *)
(*                                                                         *)
(* Representation.                                                         *)
(*  - A text is a sequence of fields (what str.split(":") returns), each   *)
(*    field a sequence of decimal digits: "08:40" is <<<<0,8>>,<<4,0>>>>.  *)
(*  - A minute count is kept in sixtieths of a minute (TicksPerMinute), so *)
(*    that h*60 + m + s/60 of to_minutes is exact.  NaN is the pandas      *)
(*    missing value; every real minute count is >= 0.                      *)
(*  - A station name is a sequence of words; str.contains(case=False) is   *)
(*    a contiguous match after lower-casing every word.                    *)
(*  - A data frame is a set of rows; rows that pandas keeps apart by their *)
(*    index are kept apart here by the key columns they were built from.   *)
(*  - stop_times.txt carries a stop_name column (the script groups by it   *)
(*    without joining stops.txt), equal to the name stops.txt gives the    *)
(*    stop_id.                                                             *)
(***************************************************************************)
EXTENDS Integers, Sequences, FiniteSets, TLC

VARIABLES
    pc,                 \* tt2gc.py: position in the script
    target_date,        \* tt2gc.py:37   <<year, month, day>>
    target_arrival_min, \* tt2gc.py:39   ticks
    weekday,            \* tt2gc.py:40
    stops,              \* tt2gc.py:49   stops.txt
    stop_times,         \* tt2gc.py:50   stop_times.txt
    trips,              \* tt2gc.py:51   trips.txt, filtered at line 65
    routes,             \* tt2gc.py:52   routes.txt
    calendar,           \* tt2gc.py:53   calendar.txt
    active_services,    \* tt2gc.py:59
    st,                 \* tt2gc.py:68-69, 81-82
    dest_ids,           \* tt2gc.py:72
    merged,             \* tt2gc.py:90-92
    best,               \* tt2gc.py:95-122
    csv,                \* tt2gc.py:132  the file written, a sequence of rows
    rpc,                \* combine_opt.py: position in the script
    train_df,           \* combine_opt.py:47
    rstops,             \* combine_opt.py:72
    stations,           \* combine_opt.py:87
    idx,                \* combine_opt.py:93  loop position in stations
    results,            \* combine_opt.py:91
    ranked,             \* combine_opt.py:123 the file written
    outcomes,           \* combine_opt.py:94-100 what became of each row of stations
    raised,             \* combine_opt.py: the exception that ended the run
    tpc,                \* time conversions: position
    minutes,            \* a whole minute count handed to fmt_time
    text,               \* fmt_time's result
    parsed_hm,          \* the text read back as the script reads HH:MM input
    parsed_hms          \* the text read back by to_minutes

selVars == <<pc, target_date, target_arrival_min, weekday, stops, stop_times,
             trips, routes, calendar, active_services, st, dest_ids, merged,
             best, csv>>
rankVars == <<rpc, train_df, rstops, stations, idx, results, ranked,
              outcomes, raised>>
timeVars == <<tpc, minutes, text, parsed_hm, parsed_hms>>
vars == <<selVars, rankVars, timeVars>>

----------------------------------------------------------------------------
(* Values *)

NaN == 0 - 1
IsNa(x) == x = NaN

TicksPerMinute == 60
Min(m) == m * TicksPerMinute

\* Sequence helpers
Range(s) == {s[i] : i \in DOMAIN s}
Perms(S) == {p \in [1..Cardinality(S) -> S] : Range(p) = S}

----------------------------------------------------------------------------
(* Texts and the time conversions *)

RECURSIVE IntOf(_)
\* int("08") = 8; the caller checks the field is a non-empty digit string
IntOf(f) == IF Len(f) = 0 THEN 0
            ELSE IntOf(SubSeq(f, 1, Len(f) - 1)) * 10 + f[Len(f)]

IsNumber(f) == Len(f) > 0 /\ \A i \in DOMAIN f : f[i] \in 0..9

RECURSIVE Digits(_)
\* str(n) for n >= 0
Digits(n) == IF n < 10 THEN <<n>> ELSE Digits(n \div 10) \o <<n % 10>>

\* format spec :02d : at least two digits, zero padded, never truncated
Pad2(n) == IF n < 10 THEN <<0, n>> ELSE Digits(n)

\* to_minutes: "HH:MM:SS" -> h*60 + m + s/60, None on any exception
to_minutes(t) ==
    IF Len(t) = 3 /\ \A i \in 1..3 : IsNumber(t[i])
    THEN (IntOf(t[1]) * 60 + IntOf(t[2])) * TicksPerMinute + IntOf(t[3])
    ELSE NaN

\* the hour is wrapped at 24
fmt_time_Wrapped(m) ==
    IF IsNa(m) THEN <<<<>>>>
    ELSE <<Pad2((m \div (60 * TicksPerMinute)) % 24),
           Pad2((m % (60 * TicksPerMinute)) \div TicksPerMinute)>>

\* fmt_time: "" for a missing value, else f"{int(m//60):02d}:{int(m%60):02d}"
fmt_time(m) ==
    IF IsNa(m) THEN <<<<>>>>
    ELSE <<Pad2(m \div (60 * TicksPerMinute)),
           Pad2((m % (60 * TicksPerMinute)) \div TicksPerMinute)>>

\* datetime.strptime(s, "%H:%M").time(), then hour*60 + minute; NaN stands for
\* the ValueError strptime raises (not two fields, hour > 23, minute > 59,
\* a field longer than two digits)
ParseHM(s) ==
    IF /\ Len(s) = 2
       /\ \A i \in 1..2 : IsNumber(s[i]) /\ Len(s[i]) <= 2
       /\ IntOf(s[1]) <= 23
       /\ IntOf(s[2]) <= 59
    THEN Min(IntOf(s[1]) * 60 + IntOf(s[2]))
    ELSE NaN

\* Series.round(1): to the nearest tenth of a minute (6 ticks), a tie to the
\* even tenth
Round1(x) ==
    IF IsNa(x) THEN NaN
    ELSE LET q == x \div 6
             r == x % 6
         IN  IF r < 3 THEN q * 6
             ELSE IF r > 3 THEN (q + 1) * 6
             ELSE IF q % 2 = 0 THEN q * 6 ELSE (q + 1) * 6

----------------------------------------------------------------------------
(* Names *)

LowerWord(w) ==
    CASE w = "Grand" -> "grand"
      [] w = "GRAND" -> "grand"
      [] w = "Central" -> "central"
      [] w = "CENTRAL" -> "central"
      [] w = "Terminal" -> "terminal"
      [] w = "TERMINAL" -> "terminal"
      [] w = "Harlem" -> "harlem"
      [] w = "Fordham" -> "fordham"
      [] w = "Penn" -> "penn"
      [] w = "Station" -> "station"
      [] w = "Valley" -> "valley"
      [] OTHER -> w

Lower(name) == [i \in DOMAIN name |-> LowerWord(name[i])]

\* pat occurs in name as a contiguous run
Occurs(pat, name) ==
    \E i \in 0..(Len(name) - Len(pat)) :
        \A j \in 1..Len(pat) : name[i + j] = pat[j]

\* Series.str.contains(pat, case=...)
Contains(name, pat, case) ==
    IF case THEN Occurs(pat, name) ELSE Occurs(Lower(pat), Lower(name))

DESTINATION_NAME == <<"Grand", "Central", "Terminal">>
GrandCentral == <<"Grand", "Central">>

----------------------------------------------------------------------------
(* Dates *)

\* pd.to_datetime(20240603, format="%Y%m%d")
to_datetime(n) == <<n \div 10000, (n \div 100) % 100, n % 100>>

\* datetime.strptime("2024-06-03", "%Y-%m-%d"); the three fields are the
\* parts between the dashes
ParseDate(s) == <<IntOf(s[1]), IntOf(s[2]), IntOf(s[3])>>

DateLe(a, b) ==
    \/ a[1] < b[1]
    \/ a[1] = b[1] /\ a[2] < b[2]
    \/ a[1] = b[1] /\ a[2] = b[2] /\ a[3] <= b[3]

DayNames == <<"sunday", "monday", "tuesday", "wednesday", "thursday",
              "friday", "saturday">>

\* target_date.strftime("%A").lower(): the day of the week of a Gregorian date
WeekdayName(d) ==
    LET t == <<0, 3, 2, 5, 0, 3, 5, 1, 4, 6, 2, 4>>
        y == IF d[2] < 3 THEN d[1] - 1 ELSE d[1]
        w == (y + (y \div 4) - (y \div 100) + (y \div 400) + t[d[2]] + d[3]) % 7
    IN  DayNames[w + 1]

----------------------------------------------------------------------------
(* The feeds and inputs the runs are checked on *)

NumTrips == 2
TripIds == 1..NumTrips

T0800 == <<<<0,8>>, <<0,0>>, <<0,0>>>>
T0810 == <<<<0,8>>, <<1,0>>, <<0,0>>>>
T0820 == <<<<0,8>>, <<2,0>>, <<0,0>>>>
T0840 == <<<<0,8>>, <<4,0>>, <<0,0>>>>
Blank == <<<<>>>>

TargetDates == {<<<<2,0,2,4>>, <<0,6>>, <<0,3>>>>}
TargetTimes == {<<<<0,8>>, <<2,0>>>>, <<<<0,8>>, <<5,0>>>>}

Harlem == <<"Harlem">>
GCT_UPPER == <<"GRAND", "CENTRAL", "TERMINAL">>
Penn == <<"Penn", "Station">>

\* stop_id 1 and 2: the terminal (two stop_ids, two spellings) or another
\* terminal; stop_id 3 and 4: one station under two stop_ids
StopTables ==
    { { [stop_id |-> 1, stop_name |-> DESTINATION_NAME],
        [stop_id |-> 2, stop_name |-> GCT_UPPER],
        [stop_id |-> 3, stop_name |-> Harlem],
        [stop_id |-> 4, stop_name |-> Harlem] },
      { [stop_id |-> 1, stop_name |-> Penn],
        [stop_id |-> 2, stop_name |-> Penn],
        [stop_id |-> 3, stop_name |-> Harlem],
        [stop_id |-> 4, stop_name |-> Harlem] } }

RouteTable ==
    { [route_id |-> 1, route_long_name |-> "Harlem"],
      [route_id |-> 2, route_long_name |-> "New Haven"] }

Weekdays == [n \in Range(DayNames) |-> IF n \in {"saturday", "sunday"} THEN 0 ELSE 1]
Weekend == [n \in Range(DayNames) |-> IF n \in {"saturday", "sunday"} THEN 1 ELSE 0]

CalRow(s, from, to, days) ==
    [service_id |-> s, start_date |-> from, end_date |-> to, days |-> days]

\* service 1 and 2: both running; 2 not on the weekday; 2 ended;
\* 1 not yet started and 2 not on the weekday
Calendars ==
    { { CalRow(1, 20240101, 20241231, Weekdays), CalRow(2, 20240101, 20241231, Weekdays) },
      { CalRow(1, 20240101, 20241231, Weekdays), CalRow(2, 20240101, 20241231, Weekend) },
      { CalRow(1, 20240101, 20241231, Weekdays), CalRow(2, 20240101, 20240531, Weekdays) },
      { CalRow(1, 20240701, 20241231, Weekdays), CalRow(2, 20240101, 20241231, Weekend) } }

\* One trip of the feed: its service and route, the stop it calls at before
\* or after stop 1, its times there and its arrival at stop 1.  Route 2 and
\* service 2 serve stop 3 only; a call without a departure time is at 08:00.
TripShapes ==
    { s \in [service_id : {1, 2}, route_id : {1, 2}, stop_id : {2, 3, 4},
             arrival_time : {T0800, T0810, T0820},
             departure_time : {T0800, T0810, T0820, Blank},
             dest_arrival_time : {T0820, T0840}] :
        /\ s.departure_time \in {s.arrival_time, Blank}
        /\ s.departure_time = Blank => s.arrival_time = T0800
        /\ s.route_id = 2 => s.stop_id = 3
        /\ s.service_id = 2 => s.stop_id = 3 /\ s.route_id = 1 }

\* The feed lists its trips in a fixed order of their shapes: trip_ids are
\* labels, and no step of the script reads more of a trip_id than its equality
ShapeCode(s) ==
    ((((s.service_id * 10 + s.route_id) * 10 + s.stop_id) * 1000
        + to_minutes(s.arrival_time) \div TicksPerMinute) * 1000
        + to_minutes(s.dest_arrival_time) \div TicksPerMinute) * 2
        + (IF s.departure_time = Blank THEN 1 ELSE 0)

Feeds ==
    { f \in [TripIds -> TripShapes] :
        \A i \in 1..(NumTrips - 1) : ShapeCode(f[i]) <= ShapeCode(f[i + 1]) }

NameOf(tbl, id) == (CHOOSE r \in tbl : r.stop_id = id).stop_name

StopTimesOf(tbl, shape) ==
    UNION { { [trip_id |-> t, stop_id |-> shape[t].stop_id,
               stop_name |-> NameOf(tbl, shape[t].stop_id),
               arrival_time |-> shape[t].arrival_time,
               departure_time |-> shape[t].departure_time],
              [trip_id |-> t, stop_id |-> 1,
               stop_name |-> NameOf(tbl, 1),
               arrival_time |-> shape[t].dest_arrival_time,
               departure_time |-> shape[t].dest_arrival_time] } : t \in TripIds }

TripsOf(shape) ==
    { [trip_id |-> t, service_id |-> shape[t].service_id,
       route_id |-> shape[t].route_id] : t \in TripIds }

----------------------------------------------------------------------------
(* tt2gc.py: the static selector *)

NoName == "nan"

\* comparisons of pandas: False when either side is missing
Le(x, y) == ~IsNa(x) /\ ~IsNa(y) /\ x <= y
Lt(x, y) == ~IsNa(x) /\ ~IsNa(y) /\ x < y

\* the weekday column is not read
ActiveServices_AnyWeekday(cal, date, wd) ==
    { r.service_id : r \in
        { c \in cal : /\ DateLe(to_datetime(c.start_date), date)
                      /\ DateLe(date, to_datetime(c.end_date)) } }

\* Step 3: services running on the target date
ActiveServices(cal, date, wd) ==
    { r.service_id : r \in
        { c \in cal : /\ DateLe(to_datetime(c.start_date), date)
                      /\ DateLe(date, to_datetime(c.end_date))
                      /\ c.days[wd] = 1 } }

\* Step 3: trips[trips["service_id"].isin(active_services)]
FilterTrips(tr, active) == { t \in tr : t.service_id \in active }

\* Step 4: the left merge's line names of one route_id
LongNames(rt, id) ==
    LET found == { r.route_long_name : r \in { x \in rt : x.route_id = id } }
    IN  IF found = {} THEN {NoName} ELSE found

\* Step 4: stop_times inner-merged with trips, left-merged with routes
MergeSt(stt, tr, rt) ==
    UNION { { [trip_id |-> p[1].trip_id, stop_id |-> p[1].stop_id,
               stop_name |-> p[1].stop_name,
               arrival_time |-> p[1].arrival_time,
               departure_time |-> p[1].departure_time,
               service_id |-> p[2].service_id,
               route_long_name |-> n] : n \in LongNames(rt, p[2].route_id) }
            : p \in { q \in stt \X tr : q[1].trip_id = q[2].trip_id } }

\* Step 5: stop_ids whose name contains the destination name, any case
DestIds(stp) ==
    { r.stop_id : r \in { x \in stp : Contains(x.stop_name, DESTINATION_NAME, FALSE) } }

\* Step 6: the two minute columns
ConvertTimes(frame) ==
    { [trip_id |-> r.trip_id, stop_id |-> r.stop_id, stop_name |-> r.stop_name,
       service_id |-> r.service_id, route_long_name |-> r.route_long_name,
       arrival_min |-> to_minutes(r.arrival_time),
       departure_min |-> to_minutes(r.departure_time)] : r \in frame }

\* Step 7: arrivals at the destination no later than the target
DestTrips(frame, ids, target) ==
    { [trip_id |-> r.trip_id, dest_arrival_min |-> r.arrival_min] : r \in
        { x \in frame : x.stop_id \in ids /\ Le(x.arrival_min, target) } }

\* Step 8: missing minus anything is missing
TravelTime(dest, dep) == IF IsNa(dest) \/ IsNa(dep) THEN NaN ELSE dest - dep

\* Step 8: which calls of a trip count as before its destination arrival
IsBefore(r, d) == Lt(r.arrival_min, d.dest_arrival_min)

\* Step 8: the candidate legs
Merged(frame, dt) ==
    { [trip_id |-> p[1].trip_id, stop_id |-> p[1].stop_id,
       stop_name |-> p[1].stop_name, service_id |-> p[1].service_id,
       route_long_name |-> p[1].route_long_name,
       arrival_min |-> p[1].arrival_min,
       departure_min |-> p[1].departure_min,
       dest_arrival_min |-> p[2].dest_arrival_min,
       travel_time_min |-> TravelTime(p[2].dest_arrival_min, p[1].departure_min)] :
      p \in { q \in frame \X dt : q[1].trip_id = q[2].trip_id /\ IsBefore(q[1], q[2]) } }

\* Step 9: the orders sort_values("dest_arrival_min", ascending=False) may
\* leave the legs in (the sort is not stable: legs with equal keys in any order)
SortedDesc(legs) ==
    { o \in Perms(legs) :
        \A i \in 1..(Len(o) - 1) : o[i].dest_arrival_min >= o[i + 1].dest_arrival_min }

\* Step 9: the group keys; groupby drops a key with a missing part
GroupKeys(legs) ==
    { <<r.stop_id, r.stop_name, r.route_long_name>> : r \in
        { x \in legs : x.route_long_name # NoName } }

KeyOf(r) == <<r.stop_id, r.stop_name, r.route_long_name>>

\* GroupBy.first(): per column, the first value of the group that is not missing
FirstDeparture(o, k) ==
    LET at == { i \in DOMAIN o : KeyOf(o[i]) = k /\ ~IsNa(o[i].departure_min) }
    IN  IF at = {} THEN NaN
        ELSE o[CHOOSE i \in at : \A j \in at : i <= j].departure_min

FirstArrival(o, k) ==
    LET at == { i \in DOMAIN o : KeyOf(o[i]) = k /\ ~IsNa(o[i].dest_arrival_min) }
    IN  IF at = {} THEN NaN
        ELSE o[CHOOSE i \in at : \A j \in at : i <= j].dest_arrival_min

FirstTravel(o, k) ==
    LET at == { i \in DOMAIN o : KeyOf(o[i]) = k /\ ~IsNa(o[i].travel_time_min) }
    IN  IF at = {} THEN NaN
        ELSE o[CHOOSE i \in at : \A j \in at : i <= j].travel_time_min

\* Steps 9-10: one row per group, renamed, rounded and formatted
Best(o) ==
    { [stop_id |-> k[1], stop_name |-> k[2], Line |-> k[3],
       Departure_Min |-> FirstDeparture(o, k),
       Arrival_Min |-> FirstArrival(o, k),
       Train_Travel_Min |-> Round1(FirstTravel(o, k)),
       Scheduled_Departure |-> fmt_time(FirstDeparture(o, k)),
       Scheduled_Arrival |-> fmt_time(FirstArrival(o, k))] : k \in GroupKeys(Range(o)) }

\* case=False is left out
Clean_CaseSensitive(rows) == { r \in rows : ~Contains(r.stop_name, GrandCentral, TRUE) }

\* Step 11: best[~best["stop_name"].str.contains("Grand Central", case=False)]
Clean(rows) == { r \in rows : ~Contains(r.stop_name, GrandCentral, FALSE) }

\* Step 11: the orders sort_values("Train_Travel_Min") may leave the rows in,
\* missing values last
SortedByTravel(rows) ==
    { o \in Perms(rows) :
        \A i \in 1..(Len(o) - 1) :
            \/ IsNa(o[i + 1].Train_Travel_Min)
            \/ Le(o[i].Train_Travel_Min, o[i + 1].Train_Travel_Min) }

\* Step 12: the columns of the file
CsvRow(r) ==
    [stop_name |-> r.stop_name, Line |-> r.Line,
     Departure_Min |-> r.Departure_Min, Arrival_Min |-> r.Arrival_Min,
     Train_Travel_Min |-> r.Train_Travel_Min,
     Scheduled_Departure |-> r.Scheduled_Departure,
     Scheduled_Arrival |-> r.Scheduled_Arrival]

\* nothing written: told apart from every written file, the empty one included
NoFile == <<[file |-> "none"]>>

Step1 ==
    /\ pc = "input"
    /\ \E d \in TargetDates, t \in TargetTimes :
        /\ target_date' = ParseDate(d)
        /\ target_arrival_min' = ParseHM(t)
        /\ weekday' = WeekdayName(ParseDate(d))
    /\ pc' = "download"
    /\ UNCHANGED <<stops, stop_times, trips, routes, calendar, active_services,
                   st, dest_ids, merged, best, csv>>
    /\ UNCHANGED <<rankVars, timeVars>>

Step2 ==
    /\ pc = "download"
    /\ \E tbl \in StopTables, cal \in Calendars, shape \in Feeds :
        /\ stops' = tbl
        /\ stop_times' = StopTimesOf(tbl, shape)
        /\ trips' = TripsOf(shape)
        /\ routes' = RouteTable
        /\ calendar' = cal
    /\ pc' = "filter"
    /\ UNCHANGED <<target_date, target_arrival_min, weekday, active_services,
                   st, dest_ids, merged, best, csv>>
    /\ UNCHANGED <<rankVars, timeVars>>

Step3_4 ==
    /\ pc = "filter"
    /\ active_services' = ActiveServices(calendar, target_date, weekday)
    /\ trips' = FilterTrips(trips, active_services')
    /\ st' = MergeSt(stop_times, trips', routes)
    /\ pc' = "dest"
    /\ UNCHANGED <<target_date, target_arrival_min, weekday, stops, stop_times,
                   routes, calendar, dest_ids, merged, best, csv>>
    /\ UNCHANGED <<rankVars, timeVars>>

\* the check for an empty dest_ids is left out
AfterDest_NoCheck(ids) == "convert"

\* Step 5: if len(dest_ids) == 0: raise ValueError(...)
AfterDest(ids) == IF Cardinality(ids) = 0 THEN "error" ELSE "convert"

Step5 ==
    /\ pc = "dest"
    /\ dest_ids' = DestIds(stops)
    /\ pc' = AfterDest(dest_ids')
    /\ UNCHANGED <<target_date, target_arrival_min, weekday, stops, stop_times,
                   trips, routes, calendar, active_services, st, merged, best, csv>>
    /\ UNCHANGED <<rankVars, timeVars>>

Step6_8 ==
    /\ pc = "convert"
    /\ st' = ConvertTimes(st)
    /\ merged' = Merged(st', DestTrips(st', dest_ids, target_arrival_min))
    /\ pc' = "select"
    /\ UNCHANGED <<target_date, target_arrival_min, weekday, stops, stop_times,
                   trips, routes, calendar, active_services, dest_ids, best, csv>>
    /\ UNCHANGED <<rankVars, timeVars>>

Step9_10 ==
    /\ pc = "select"
    /\ \E o \in SortedDesc(merged) : best' = Best(o)
    /\ pc' = "clean"
    /\ UNCHANGED <<target_date, target_arrival_min, weekday, stops, stop_times,
                   trips, routes, calendar, active_services, st, dest_ids,
                   merged, csv>>
    /\ UNCHANGED <<rankVars, timeVars>>

Step11_12 ==
    /\ pc = "clean"
    /\ \E o \in SortedByTravel(Clean(best)) :
        /\ best' = Range(o)
        /\ csv' = [i \in DOMAIN o |-> CsvRow(o[i])]
    /\ pc' = "done"
    /\ UNCHANGED <<target_date, target_arrival_min, weekday, stops, stop_times,
                   trips, routes, calendar, active_services, st, dest_ids, merged>>
    /\ UNCHANGED <<rankVars, timeVars>>

SelIdle ==
    /\ pc = "off"
    /\ target_date = <<>> /\ target_arrival_min = NaN /\ weekday = ""
    /\ stops = {} /\ stop_times = {} /\ trips = {} /\ routes = {}
    /\ calendar = {} /\ active_services = {} /\ st = {} /\ dest_ids = {}
    /\ merged = {} /\ best = {} /\ csv = NoFile

RankIdle ==
    /\ rpc = "off"
    /\ train_df = <<>> /\ rstops = {} /\ stations = <<>> /\ idx = 0
    /\ results = <<>> /\ ranked = NoFile /\ outcomes = <<>> /\ raised = ""

TimeIdle ==
    /\ tpc = "off"
    /\ minutes = 0 /\ text = <<>> /\ parsed_hm = NaN /\ parsed_hms = NaN

Init ==
    /\ pc = "input"
    /\ target_date = <<>> /\ target_arrival_min = NaN /\ weekday = ""
    /\ stops = {} /\ stop_times = {} /\ trips = {} /\ routes = {}
    /\ calendar = {} /\ active_services = {} /\ st = {} /\ dest_ids = {}
    /\ merged = {} /\ best = {} /\ csv = NoFile
    /\ RankIdle
    /\ TimeIdle

Next ==
    \/ Step1
    \/ Step2
    \/ Step3_4
    \/ Step5
    \/ Step6_8
    \/ Step9_10
    \/ Step11_12

Spec == Init /\ [][Next]_vars

----------------------------------------------------------------------------
(* Properties of the static selector *)

Done == pc = "done"

\* the candidate legs a row of best was grouped from
LegsOf(r) == { l \in merged : KeyOf(l) = <<r.stop_id, r.stop_name, r.Line>> }

\* a calendar row says the service runs on the target date, read off the
\* feed's own YYYYMMDD numbers
DateNumber(d) == d[1] * 10000 + d[2] * 100 + d[3]
ServiceRuns(s) ==
    \E c \in calendar :
        /\ c.service_id = s
        /\ c.start_date <= DateNumber(target_date)
        /\ DateNumber(target_date) <= c.end_date
        /\ c.days[weekday] = 1

\* the legs have their departure times, and no two reach the destination in
\* the same minute (the order of equal sort keys then plays no part)
PlainGroup(legs) ==
    /\ \A l \in legs : ~IsNa(l.departure_min)
    /\ \A a, b \in legs : a.dest_arrival_min = b.dest_arrival_min => a = b

\* C1: the row written for a station shows the latest departure among the
\* trips that call there and reach the destination by the target time (the
\* later-departing trip wins, not the one that reaches the destination later).
C1_LatestDeparture ==
    Done => \A r \in best :
                PlainGroup(LegsOf(r))
                    => \A l \in LegsOf(r) : l.departure_min <= r.Departure_Min

\* C2: every row written has an arrival no later than the target and a
\* departure strictly before that arrival.
C2_RowTimes ==
    Done => \A i \in DOMAIN csv :
                /\ Le(csv[i].Arrival_Min, target_arrival_min)
                /\ Lt(csv[i].Departure_Min, csv[i].Arrival_Min)

\* The half of C2 that every run keeps: no row written arrives after the
\* target, and every candidate leg calls at its stop before its trip reaches
\* the destination.
ArrivalByTarget ==
    /\ \A l \in merged : Lt(l.arrival_min, l.dest_arrival_min)
    /\ Done => \A i \in DOMAIN csv : Le(csv[i].Arrival_Min, target_arrival_min)

\* C3: only trips of a service that runs on the target date (calendar range
\* and weekday flag) reach the joined table and the candidate legs, and every
\* time of every row written is the time of such a leg.
C3_OnlyActiveServices ==
    /\ \A r \in st : ServiceRuns(r.service_id)
    /\ \A l \in merged : ServiceRuns(l.service_id)
    /\ Done => \A r \in best :
                /\ \E l \in LegsOf(r) :
                     ServiceRuns(l.service_id) /\ l.dest_arrival_min = r.Arrival_Min
                /\ \/ IsNa(r.Departure_Min)
                   \/ \E l \in LegsOf(r) :
                        /\ ServiceRuns(l.service_id)
                        /\ l.departure_min = r.Departure_Min
                        /\ Round1(l.travel_time_min) = r.Train_Travel_Min

\* C3 witness: a trip of a service that does not run was in the feed, and
\* the file has a row from a trip that runs.
C3_Witness ==
    /\ Done
    /\ Len(csv) > 0
    /\ \E s \in stop_times : \A t \in trips : t.trip_id # s.trip_id

\* C4: the file holds one row per station name that has a candidate leg, and
\* no station name twice.
C4_OneRowPerStation ==
    Done => /\ \A i, j \in DOMAIN csv :
                 csv[i].stop_name = csv[j].stop_name => i = j
            /\ { csv[i].stop_name : i \in DOMAIN csv }
                 = { l.stop_name : l \in
                       { x \in merged : ~Contains(x.stop_name, DESTINATION_NAME, FALSE) } }

\* C5: in every row written, travel time is arrival minus departure, and
\* departure, arrival and travel time are those of one candidate leg.
C5_OneLegPerRow ==
    Done => \A r \in best :
                /\ r.Train_Travel_Min = TravelTime(r.Arrival_Min, r.Departure_Min)
                /\ \E l \in LegsOf(r) :
                     /\ l.departure_min = r.Departure_Min
                     /\ l.dest_arrival_min = r.Arrival_Min
                     /\ Round1(l.travel_time_min) = r.Train_Travel_Min

\* C6: no row written has a station name that contains the destination
\* name, in any spelling of upper and lower case.
C6_NoDestinationRow ==
    Done => \A i \in DOMAIN csv :
                ~Occurs(Lower(DESTINATION_NAME), Lower(csv[i].stop_name))

\* C6 witness: a call at a stop named like the destination was a candidate
\* leg, and the file was written with some other station in it.
C6_Witness ==
    /\ Done
    /\ Len(csv) > 0
    /\ \E l \in merged : Occurs(Lower(DESTINATION_NAME), Lower(l.stop_name))

NoDestinationStop ==
    \A r \in stops : ~Occurs(Lower(DESTINATION_NAME), Lower(r.stop_name))
NoServiceRuns == \A c \in calendar : ~ServiceRuns(c.service_id)
Ended == pc \in {"done", "error"}

----------------------------------------------------------------------------
(* The time conversions, applied to whole minute counts *)

MaxMinutes == 6100

TimeInit ==
    /\ SelIdle
    /\ RankIdle
    /\ tpc = "format"
    /\ minutes \in 0..MaxMinutes
    /\ text = <<>> /\ parsed_hm = NaN /\ parsed_hms = NaN

TimeFormat ==
    /\ tpc = "format"
    /\ text' = fmt_time(Min(minutes))
    /\ tpc' = "parse"
    /\ UNCHANGED <<minutes, parsed_hm, parsed_hms>>
    /\ UNCHANGED <<selVars, rankVars>>

TimeParse ==
    /\ tpc = "parse"
    /\ parsed_hm' = ParseHM(text)
    /\ parsed_hms' = to_minutes(text)
    /\ tpc' = "parsed"
    /\ UNCHANGED <<minutes, text>>
    /\ UNCHANGED <<selVars, rankVars>>

TimeNext ==
    \/ TimeFormat
    \/ TimeParse

TimeSpec == TimeInit /\ [][TimeNext]_vars

DayMinutes == 24 * 60

ReadBackAs(p) ==
    /\ minutes < DayMinutes => p = Min(minutes)
    /\ minutes >= DayMinutes =>
         /\ ~IsNa(p)
         /\ p % Min(DayMinutes) = Min(minutes) % Min(DayMinutes)

\* C9 as stated: the text fmt_time gives for a whole minute count is read
\* back as the same count below 1440, and as a count equal to it modulo 1440
\* from 1440 on, by one of the script's two parsers at least.
C9_RoundTrip ==
    tpc = "parsed" => ReadBackAs(parsed_hm) \/ ReadBackAs(parsed_hms)

\* C9 amended: fmt_time writes the raw hour, of two digits at least, and
\* the minute, of two digits; the HH:MM parser of the script reads the text
\* back as the same count below 1440 and rejects it from 1440 on; to_minutes
\* rejects the text as it is and reads it back as the same count, below and
\* above 1440 alike, once a seconds field is added.
C9_FormatAndReadBack ==
    tpc = "parsed" =>
        /\ Len(text) = 2
        /\ Len(text[1]) >= 2 /\ IntOf(text[1]) = minutes \div 60
        /\ Len(text[2]) = 2 /\ IntOf(text[2]) = minutes % 60
        /\ minutes < DayMinutes => parsed_hm = Min(minutes)
        /\ minutes >= DayMinutes => IsNa(parsed_hm)
        /\ IsNa(parsed_hms)
        /\ to_minutes(text \o <<<<0, 0>>>>) = Min(minutes)

\* C9 witness: 1500 minutes were formatted as "25:00" and read back.
C9_Witness ==
    tpc = "parsed" /\ minutes = 1500 /\ text = <<<<2, 5>>, <<0, 0>>>>

----------------------------------------------------------------------------
(* combine_opt.py: the total-time ranker *)

MaxRows == 2

Fordham == <<"Fordham">>
HarlemValley == <<"Harlem", "Valley">>

\* rows of metro_north_train_times_for_arrival.csv, all arriving 08:40
TrainRows ==
    { [stop_name |-> n, Line |-> l, Train_Travel_Min |-> t,
       Scheduled_Departure |-> fmt_time(Min(520) - t),
       Scheduled_Arrival |-> fmt_time(Min(520))] :
      n \in {Harlem, Fordham}, l \in {"Harlem", "New Haven"},
      t \in {Min(20), Min(40)} }

TrainFiles == UNION { [1..n -> TrainRows] : n \in 0..MaxRows }

StopRow(n, lat, lon) == [stop_name |-> n, stop_lat |-> lat, stop_lon |-> lon]

\* stops.txt, in file order: both stations; a longer name that contains
\* "Harlem" first; one station only, its latitude missing
RankStopTables ==
    { <<StopRow(Harlem, 1, 1), StopRow(Fordham, 2, 2)>>,
      <<StopRow(HarlemValley, 3, 3), StopRow(Harlem, 1, 1)>>,
      <<StopRow(Harlem, NaN, 1)>> }

\* what the routing service may answer: seconds and metres
RouteAnswers == { [duration |-> 300, distance |-> 3000],
                  [duration |-> 1800, distance |-> 25000] }

\* match = stops[stops["stop_name"].str.contains(row["stop_name"], case=False)]
MatchOf(stp, row) ==
    { i \in DOMAIN stp : Contains(stp[i].stop_name, row.stop_name, FALSE) }

RECURSIVE StationCoords(_, _)
\* the station_coords list: one entry per row of train_df that has a match,
\* with the coordinates of the first match
StationCoords(df, stp) ==
    IF df = <<>> THEN <<>>
    ELSE LET row == df[Len(df)]
             m == MatchOf(stp, row)
             first == CHOOSE i \in m : \A j \in m : i <= j
         IN  StationCoords(SubSeq(df, 1, Len(df) - 1), stp)
             \o (IF m = {} THEN <<>>
                 ELSE <<[stop_name |-> row.stop_name,
                         stop_lat |-> stp[first].stop_lat,
                         stop_lon |-> stp[first].stop_lon]>>)

WithCoords(row, lat, lon) ==
    [stop_name |-> row.stop_name, Line |-> row.Line,
     Train_Travel_Min |-> row.Train_Travel_Min,
     Scheduled_Departure |-> row.Scheduled_Departure,
     Scheduled_Arrival |-> row.Scheduled_Arrival,
     stop_lat |-> lat, stop_lon |-> lon]

RECURSIVE RightMatches(_, _)
\* the rows a left row makes with the right rows of its stop_name, in order;
\* with none, one row with missing coordinates
RightMatches(row, coords) ==
    IF coords = <<>> THEN <<>>
    ELSE RightMatches(row, SubSeq(coords, 1, Len(coords) - 1))
         \o (IF coords[Len(coords)].stop_name = row.stop_name
             THEN <<WithCoords(row, coords[Len(coords)].stop_lat,
                               coords[Len(coords)].stop_lon)>>
             ELSE <<>>)

RECURSIVE MergeLeft(_, _)
\* pd.merge(train_df, station_df, on="stop_name", how="left")
MergeLeft(df, coords) ==
    IF df = <<>> THEN <<>>
    ELSE LET row == df[Len(df)]
             hit == RightMatches(row, coords)
         IN  MergeLeft(SubSeq(df, 1, Len(df) - 1), coords)
             \o (IF hit = <<>> THEN <<WithCoords(row, NaN, NaN)>> ELSE hit)

\* round(x, 1) on kilometres, kept in tenths: metres / 100, a tie to even
RoundKm(metres) ==
    LET q == metres \div 100
        r == metres % 100
    IN  IF r < 50 THEN q
        ELSE IF r > 50 THEN q + 1
        ELSE IF q % 2 = 0 THEN q ELSE q + 1

\* drive_time + row["Train_Travel_Min"]: missing when the train time is
Total(drive, train) == IF IsNa(train) THEN NaN ELSE drive + train

ResultRow(row, ans) ==
    [Station |-> row.stop_name, Line |-> row.Line,
     Drive_Min |-> Round1(ans.duration),
     Drive_Km |-> RoundKm(ans.distance),
     Train_Travel_Min |-> row.Train_Travel_Min,
     Scheduled_Departure |-> row.Scheduled_Departure,
     Scheduled_Arrival |-> row.Scheduled_Arrival,
     Total_Travel_Min |-> Round1(Total(ans.duration, row.Train_Travel_Min))]

RemoveAt(q, i) == SubSeq(q, 1, i - 1) \o SubSeq(q, i + 1, Len(q))

TotalLe(a, b) ==
    \/ IsNa(b.Total_Travel_Min)
    \/ Le(a.Total_Travel_Min, b.Total_Travel_Min)

RECURSIVE SortedByTotal(_)
\* the orders sort_values("Total_Travel_Min") may leave the rows in (rows
\* with equal totals in any order, missing totals last)
SortedByTotal(q) ==
    IF q = <<>> THEN {<<>>}
    ELSE LET least == { q[i] : i \in { j \in DOMAIN q :
                                         \A k \in DOMAIN q : TotalLe(q[j], q[k]) } }
         IN  UNION { { <<v>> \o rest :
                       rest \in SortedByTotal(
                           RemoveAt(q, CHOOSE i \in DOMAIN q : q[i] = v)) }
                     : v \in least }

RankInit ==
    /\ SelIdle
    /\ TimeIdle
    /\ rpc = "load"
    /\ train_df = <<>> /\ rstops = <<>> /\ stations = <<>> /\ idx = 0
    /\ results = <<>> /\ ranked = NoFile /\ outcomes = <<>> /\ raised = ""

\* lines 47-72: the selector's file and stops.txt are read
Load ==
    /\ rpc = "load"
    /\ \E df \in TrainFiles, stp \in RankStopTables :
        /\ train_df' = df
        /\ rstops' = stp
    /\ rpc' = "match"
    /\ UNCHANGED <<stations, idx, results, ranked, outcomes, raised>>
    /\ UNCHANGED <<selVars, timeVars>>

\* lines 75-87 with a match: the coordinates are merged in
Match ==
    /\ rpc = "match"
    /\ StationCoords(train_df, rstops) # <<>>
    /\ stations' = MergeLeft(train_df, StationCoords(train_df, rstops))
    /\ rpc' = "geocode"
    /\ UNCHANGED <<train_df, rstops, idx, results, ranked, outcomes, raised>>
    /\ UNCHANGED <<selVars, timeVars>>

\* lines 84-87 with no match at all: pd.DataFrame([]) has no stop_name
\* column and pd.merge raises KeyError
MatchNone ==
    /\ rpc = "match"
    /\ StationCoords(train_df, rstops) = <<>>
    /\ rpc' = "error"
    /\ raised' = "KeyError"
    /\ UNCHANGED <<train_df, rstops, stations, idx, results, ranked, outcomes>>
    /\ UNCHANGED <<selVars, timeVars>>

\* line 90: the caller's address is found
Geocode ==
    /\ rpc = "geocode"
    /\ rpc' = "loop"
    /\ idx' = 1
    /\ UNCHANGED <<train_df, rstops, stations, results, ranked, outcomes, raised>>
    /\ UNCHANGED <<selVars, timeVars>>

\* lines 28-29: the caller's address is not found
GeocodeFails ==
    /\ rpc = "geocode"
    /\ rpc' = "error"
    /\ raised' = "ValueError"
    /\ UNCHANGED <<train_df, rstops, stations, idx, results, ranked, outcomes>>
    /\ UNCHANGED <<selVars, timeVars>>

\* lines 94-95: a row without coordinates is passed over
NoCoordinates ==
    /\ rpc = "loop"
    /\ idx <= Len(stations)
    /\ IsNa(stations[idx].stop_lat) \/ IsNa(stations[idx].stop_lon)
    /\ outcomes' = Append(outcomes, "no coordinates")
    /\ idx' = idx + 1
    /\ UNCHANGED <<rpc, train_df, rstops, stations, results, ranked, raised>>
    /\ UNCHANGED <<selVars, timeVars>>

\* lines 96-100: the routing lookup fails (get_osrm_time_distance returns
\* None, None) and the row is passed over
RouteFails ==
    /\ rpc = "loop"
    /\ idx <= Len(stations)
    /\ ~(IsNa(stations[idx].stop_lat) \/ IsNa(stations[idx].stop_lon))
    /\ outcomes' = Append(outcomes, "no route")
    /\ idx' = idx + 1
    /\ UNCHANGED <<rpc, train_df, rstops, stations, results, ranked, raised>>
    /\ UNCHANGED <<selVars, timeVars>>

\* lines 96-112: the routing lookup answers and the row is kept
RouteFound ==
    /\ rpc = "loop"
    /\ idx <= Len(stations)
    /\ ~(IsNa(stations[idx].stop_lat) \/ IsNa(stations[idx].stop_lon))
    /\ \E ans \in RouteAnswers :
        results' = Append(results, ResultRow(stations[idx], ans))
    /\ outcomes' = Append(outcomes, "routed")
    /\ idx' = idx + 1
    /\ UNCHANGED <<rpc, train_df, rstops, stations, ranked, raised>>
    /\ UNCHANGED <<selVars, timeVars>>

\* lines 117-123: the results are sorted and written
Rank ==
    /\ rpc = "loop"
    /\ idx > Len(stations)
    /\ results # <<>>
    /\ \E o \in SortedByTotal(results) : ranked' = o
    /\ rpc' = "done"
    /\ UNCHANGED <<train_df, rstops, stations, idx, results, outcomes, raised>>
    /\ UNCHANGED <<selVars, timeVars>>

\* lines 117-118 with no result: pd.DataFrame([]) has no Total_Travel_Min
\* column and sort_values raises KeyError
RankNone ==
    /\ rpc = "loop"
    /\ idx > Len(stations)
    /\ results = <<>>
    /\ rpc' = "error"
    /\ raised' = "KeyError"
    /\ UNCHANGED <<train_df, rstops, stations, idx, results, ranked, outcomes>>
    /\ UNCHANGED <<selVars, timeVars>>

RankNext ==
    \/ Load
    \/ Match
    \/ MatchNone
    \/ Geocode
    \/ GeocodeFails
    \/ NoCoordinates
    \/ RouteFails
    \/ RouteFound
    \/ Rank
    \/ RankNone

RankSpec == RankInit /\ [][RankNext]_vars

\* the rows of stations that were routed, in order
RoutedStations ==
    { i \in DOMAIN outcomes : outcomes[i] = "routed" }

\* C8: whatever becomes of each station (no coordinates, no route, routed),
\* also when none is routed, the only error a run ends in is the caller's
\* own address not being found; a run that ends well has written exactly the
\* stations that had coordinates and a route.
C8_BestEffort ==
    /\ (rpc = "error" /\ train_df # <<>>) => raised = "ValueError"
    /\ rpc = "done" =>
         /\ Len(ranked) = Cardinality(RoutedStations)
         /\ { ranked[i].Station : i \in DOMAIN ranked }
              = { stations[i].stop_name : i \in RoutedStations }

\* C10: the file written has no more rows than the selector's file.
C10_NoRowMultiplication ==
    rpc = "done" => Len(ranked) <= Len(train_df)

====
